---- MODULE Spec2Model ----
(***************************************************************************)
(* A model of package quickfilter (src/quickfilter.go): the QuickFilter    *)
(* bit array, its mutators New, NewFilled, Add, Clear, Fill, Copy and      *)
(* UnionOf, and the Iterator with Iterate, Done, Next and Value.           *)
(*                                                                         *)
(* A QuickFilter is a Go struct {len, sourceLen, bits} whose bits field is *)
(* a slice: a reference to a backing array.  The model keeps the backing   *)
(* arrays in a heap and the slice as the address of its array, so that     *)
(* sharing of storage between two filters is something the model can show. *)
(* A word is a natural number below 2^UintSize; |, & and OnesCount are     *)
(* computed bit by bit.                                                    *)
(***************************************************************************)
EXTENDS Integers, Sequences, FiniteSets

\* Width of a word (bits.UintSize is 32 or 64; scaled down for checking).
UintSize == 2

\* Largest sourceLen handed to New and NewFilled.
MaxSourceLen == 3

\* The variables of the calling program that hold a QuickFilter.
Slots == {"qf1", "qf2"}

\* Addresses of backing arrays: one per variable is enough, because a
\* variable refers to at most one array.
Addrs == {"m1", "m2"}

VARIABLES
    qf,     \* qf[s]: the QuickFilter struct held by variable s
    heap,   \* heap[a]: the words of the backing array at address a
    it,     \* the Iterator of the running loop
    pc,     \* "idle", or "loop" while a for-loop over an Iterator runs
    calls,  \* number of it.Next() calls made by the running loop
    prev,   \* the Value() observed by the previous round of the loop
    last,   \* the operation executed last and its operands
    hist    \* hist[s]: what is known of the history of the filter in s

vars == <<qf, heap, it, pc, calls, prev, last, hist>>

----------------------------------------------------------------------------
\* Word arithmetic

Pow2(n) == 2 ^ n

\* Bit k of word w.
Bit(w, k) == (w \div Pow2(k)) % 2

RECURSIVE OrFrom(_, _, _)
OrFrom(a, b, k) ==
    IF k >= UintSize THEN 0
    ELSE (IF Bit(a, k) = 1 \/ Bit(b, k) = 1 THEN Pow2(k) ELSE 0)
         + OrFrom(a, b, k + 1)

\* a | b on words
Or(a, b) == OrFrom(a, b, 0)

RECURSIVE AndFrom(_, _, _)
AndFrom(a, b, k) ==
    IF k >= UintSize THEN 0
    ELSE (IF Bit(a, k) = 1 /\ Bit(b, k) = 1 THEN Pow2(k) ELSE 0)
         + AndFrom(a, b, k + 1)

\* a & b on words
And(a, b) == AndFrom(a, b, 0)

RECURSIVE OnesFrom(_, _)
OnesFrom(w, k) ==
    IF k >= UintSize THEN 0 ELSE Bit(w, k) + OnesFrom(w, k + 1)

\* bits.OnesCount(w)
OnesCount(w) == OnesFrom(w, 0)

\* ^uint(0)
AllOnes == Pow2(UintSize) - 1

\* Go's integer division, which truncates toward zero.
Quot(a, b) == IF a >= 0 THEN a \div b ELSE -((-a) \div b)

\* offsets(pos): the index of the word and the mask of the bit of pos.
\* uint(pos) % UintSize of a negative pos is pos modulo UintSize, the
\* word width dividing 2^64.
offsets(pos) ==
    [index |-> Quot(pos, UintSize), mask |-> Pow2(pos % UintSize)]

----------------------------------------------------------------------------
\* QuickFilter.  An operation returns the struct it returns in Go (qf) and
\* the contents of the backing array of that struct (words).

\* make([]uint, n)
Make(n) == [i \in 1..n |-> 0]

New(sourceLen, addr) ==
    LET lastIndex == offsets(sourceLen - 1).index
    IN  [qf    |-> [len |-> 0, sourceLen |-> sourceLen, bits |-> addr],
         words |-> Make(lastIndex + 1)]

\* Add without qf.len++.
AddNoCount(q, words, index) ==
    LET o == offsets(index)
    IN  [qf    |-> q,
         words |-> [words EXCEPT ![o.index + 1] = Or(@, o.mask)]]

Add(q, words, index) ==
    LET o == offsets(index)
    IN  [qf    |-> [q EXCEPT !.len = @ + 1],
         words |-> [words EXCEPT ![o.index + 1] = Or(@, o.mask)]]

\* qf.Len()
LenOf(q) == q.len

\* Clear whose loop stops one word early.
ClearKeepsLast(q, words) ==
    [qf    |-> [q EXCEPT !.len = 0],
     words |-> [i \in 1..Len(words) |-> IF i < Len(words) THEN 0 ELSE words[i]]]

Clear(q, words) ==
    [qf    |-> [q EXCEPT !.len = 0],
     words |-> [i \in 1..Len(words) |-> 0]]

\* Fill that counts the bits it has set instead of taking sourceLen.
FillCountsWords(q, words) ==
    [qf    |-> [q EXCEPT !.len = Len(words) * UintSize],
     words |-> [i \in 1..Len(words) |-> AllOnes]]

Fill(q, words) ==
    [qf    |-> [q EXCEPT !.len = q.sourceLen],
     words |-> [i \in 1..Len(words) |-> AllOnes]]

NewFilled(sourceLen, addr) ==
    LET n == New(sourceLen, addr) IN Fill(n.qf, n.words)

\* copy(dst, src): the first min(len(dst), len(src)) elements.
CopyWords(dst, src) ==
    [i \in 1..Len(dst) |-> IF i <= Len(src) THEN src[i] ELSE dst[i]]

\* Copy that returns the struct without a new backing array.
CopyShares(q, words, addr) ==
    [qf |-> q, words |-> words]

Copy(q, words, addr) ==
    LET qf2 == New(q.sourceLen, addr)
    IN  [qf    |-> [qf2.qf EXCEPT !.len = q.len],
         words |-> CopyWords(qf2.words, words)]

\* The condition under which UnionOf panics.
UnionOfPanics(words, words1, words2) ==
    Len(words) # Len(words1) \/ Len(words) # Len(words2)

RECURSIVE SumOnes(_, _)
SumOnes(words, i) ==
    IF i > Len(words) THEN 0 ELSE OnesCount(words[i]) + SumOnes(words, i + 1)

\* UnionOf that ors into the receiver's words instead of overwriting them.
UnionOfKeepsReceiver(q, words, words1, words2) ==
    LET u == [i \in 1..Len(words) |-> Or(words[i], Or(words1[i], words2[i]))]
    IN  [qf    |-> [q EXCEPT !.len = SumOnes(u, 1)],
         words |-> u]

UnionOf(q, words, words1, words2) ==
    LET u == [i \in 1..Len(words) |-> Or(words1[i], words2[i])]
    IN  [qf    |-> [q EXCEPT !.len = SumOnes(u, 1)],
         words |-> u]

----------------------------------------------------------------------------
\* Iterator

\* Done with > in place of >=.
DoneOffByOne(i) == i.index > i.sourceLen

Done(i) == i.index >= i.sourceLen

RECURSIVE Scan(_, _, _)
\* The for loop of Next, entered with it.index = index.
Scan(index, sourceLen, words) ==
    IF index < sourceLen
    THEN LET o == offsets(index)
         IN  IF And(words[o.index + 1], o.mask) > 0
             THEN index
             ELSE Scan(index + 1, sourceLen, words)
    ELSE index

RECURSIVE Tested(_, _, _)
\* The positions whose bit the for loop of Next tests, in order, when it is
\* entered with it.index = index: one offsets() and one & per round.
Tested(index, sourceLen, words) ==
    IF index < sourceLen
    THEN LET o == offsets(index)
         IN  IF And(words[o.index + 1], o.mask) > 0
             THEN <<index>>
             ELSE <<index>> \o Tested(index + 1, sourceLen, words)
    ELSE <<>>

Next(i, h) == [i EXCEPT !.index = Scan(i.index + 1, i.sourceLen, h[i.bits])]

Value(i) == i.index

Iterate(q, h) ==
    Next([index |-> -1, sourceLen |-> q.sourceLen, bits |-> q.bits], h)

RECURSIVE Collect(_, _)
\* The values seen by: for ; !it.Done(); it = it.Next() { it.Value() }
Collect(i, h) ==
    IF Done(i) THEN <<>> ELSE <<Value(i)>> \o Collect(Next(i, h), h)

\* The values seen by the loop over q.Iterate().
IterateAll(q, h) == Collect(Iterate(q, h), h)

----------------------------------------------------------------------------
\* The calling program: variables holding filters, each operation written
\* back to the variable it was called on (qf = qf.Add(i)), as the package
\* requires, and the for-loop over an Iterator.

NoIterator == [index |-> -1, sourceLen |-> 0, bits |-> "none"]

\* An address no other variable refers to: where make() puts a new array.
Alloc(s) == CHOOSE a \in Addrs : \A t \in Slots \ {s} : qf[t].bits # a

\* The heap after garbage collection: an array no filter refers to is gone.
Collected(q, h) ==
    [a \in Addrs |-> IF \E s \in Slots : q[s].bits = a THEN h[a] ELSE <<>>]

\* s = r: the struct goes to variable s, the words to its backing array.
Store(s, r) ==
    /\ qf' = [qf EXCEPT ![s] = r.qf]
    /\ heap' = Collected(qf', [heap EXCEPT ![r.qf.bits] = r.words])

Did(op, s, a, b, panic) ==
    last' = [op |-> op, s |-> s, a |-> a, b |-> b, panic |-> panic]

NoHistory == [addOnly |-> FALSE, added |-> {}, copyOf |-> "none"]

\* The history of the other variables once s holds a new filter: a filter
\* that was a copy of the old s is no longer a copy of s.
Forget(s, h) ==
    [t \in Slots |->
        IF t # s /\ h[t].copyOf = s THEN [h[t] EXCEPT !.copyOf = "none"]
        ELSE h[t]]

\* The array a variable refers to at the start.
InitAddr(s) == IF s = "qf1" THEN "m1" ELSE "m2"

\* Every variable holds New(0).
Init ==
    /\ qf = [s \in Slots |-> New(0, InitAddr(s)).qf]
    /\ heap = [a \in Addrs |-> New(0, a).words]
    /\ it = NoIterator
    /\ pc = "idle"
    /\ calls = 0
    /\ prev = -1
    /\ last = [op |-> "New", s |-> "qf1", a |-> "qf1", b |-> "qf1",
               panic |-> FALSE]
    /\ hist = [s \in Slots |->
                  [addOnly |-> TRUE, added |-> {}, copyOf |-> "none"]]

\* s = New(n)
DoNew(s, n) ==
    /\ pc = "idle"
    /\ Store(s, New(n, Alloc(s)))
    /\ hist' = [Forget(s, hist) EXCEPT
                   ![s] = [addOnly |-> TRUE, added |-> {}, copyOf |-> "none"]]
    /\ Did("New", s, s, s, FALSE)
    /\ UNCHANGED <<it, pc, calls, prev>>

\* s = NewFilled(n)
DoNewFilled(s, n) ==
    /\ pc = "idle"
    /\ Store(s, NewFilled(n, Alloc(s)))
    /\ hist' = [Forget(s, hist) EXCEPT ![s] = NoHistory]
    /\ Did("NewFilled", s, s, s, FALSE)
    /\ UNCHANGED <<it, pc, calls, prev>>

\* The bit of position index is set in the array of q (what the caller of
\* Add knows of the positions it has added: Add itself does not look).
IsMarked(q, h, index) ==
    And(h[q.bits][offsets(index).index + 1], offsets(index).mask) > 0

\* s = s.Add(index), as the callers of the package call it: index is a
\* position of the source slice that is not in the filter yet.
DoAdd(s, index) ==
    /\ pc = "idle"
    /\ index \in 0..(qf[s].sourceLen - 1)
    /\ ~IsMarked(qf[s], heap, index)
    /\ Store(s, Add(qf[s], heap[qf[s].bits], index))
    /\ hist' = [hist EXCEPT ![s] =
                   IF @.addOnly
                   THEN [@ EXCEPT !.added = @ \cup {index}]
                   ELSE @]
    /\ Did("Add", s, s, s, FALSE)
    /\ UNCHANGED <<it, pc, calls, prev>>

\* s = s.Clear()
DoClear(s) ==
    /\ pc = "idle"
    /\ Store(s, Clear(qf[s], heap[qf[s].bits]))
    /\ hist' = [hist EXCEPT ![s] = [@ EXCEPT !.addOnly = FALSE, !.added = {}]]
    /\ Did("Clear", s, s, s, FALSE)
    /\ UNCHANGED <<it, pc, calls, prev>>

\* s = s.Fill()
DoFill(s) ==
    /\ pc = "idle"
    /\ Store(s, Fill(qf[s], heap[qf[s].bits]))
    /\ hist' = [hist EXCEPT ![s] = [@ EXCEPT !.addOnly = FALSE, !.added = {}]]
    /\ Did("Fill", s, s, s, FALSE)
    /\ UNCHANGED <<it, pc, calls, prev>>

\* s = t.Copy(), into another variable than the one copied
DoCopy(s, t) ==
    /\ pc = "idle"
    /\ s # t
    /\ Store(s, Copy(qf[t], heap[qf[t].bits], Alloc(s)))
    /\ hist' = [Forget(s, hist) EXCEPT
                   ![s] = [addOnly |-> FALSE, added |-> {}, copyOf |-> t]]
    /\ Did("Copy", s, t, t, FALSE)
    /\ UNCHANGED <<it, pc, calls, prev>>

\* s = s.UnionOf(a, b)
DoUnionOf(s, a, b) ==
    /\ pc = "idle"
    /\ IF UnionOfPanics(heap[qf[s].bits], heap[qf[a].bits], heap[qf[b].bits])
       THEN /\ Did("UnionOf", s, a, b, TRUE)
            /\ UNCHANGED <<qf, heap, hist>>
       ELSE /\ Store(s, UnionOf(qf[s], heap[qf[s].bits],
                                heap[qf[a].bits], heap[qf[b].bits]))
            /\ hist' = [hist EXCEPT
                           ![s] = [@ EXCEPT !.addOnly = FALSE, !.added = {}]]
            /\ Did("UnionOf", s, a, b, FALSE)
    /\ UNCHANGED <<it, pc, calls, prev>>

\* for it := s.Iterate(); ...
LoopStart(s) ==
    /\ pc = "idle"
    /\ it' = Iterate(qf[s], heap)
    /\ pc' = "loop"
    /\ calls' = 0
    /\ prev' = -1
    /\ Did("Iterate", s, s, s, FALSE)
    /\ UNCHANGED <<qf, heap, hist>>

\* ...; !it.Done(); it = it.Next() { it.Value() }: one round of the loop
LoopNext ==
    /\ pc = "loop"
    /\ ~Done(it)
    /\ prev' = Value(it)
    /\ it' = Next(it, heap)
    /\ calls' = calls + 1
    /\ Did("Next", last.s, last.s, last.s, FALSE)
    /\ UNCHANGED <<qf, heap, pc, hist>>

\* it.Done() is true: the loop ends
LoopExit ==
    /\ pc = "loop"
    /\ Done(it)
    /\ pc' = "idle"
    /\ it' = NoIterator
    /\ calls' = 0
    /\ prev' = -1
    /\ Did("Done", last.s, last.s, last.s, FALSE)
    /\ UNCHANGED <<qf, heap, hist>>

Next_ ==
    \/ \E s \in Slots, n \in 0..MaxSourceLen : DoNew(s, n)
    \/ \E s \in Slots, n \in 0..MaxSourceLen : DoNewFilled(s, n)
    \/ \E s \in Slots, index \in 0..(MaxSourceLen - 1) : DoAdd(s, index)
    \/ \E s \in Slots : DoClear(s)
    \/ \E s \in Slots : DoFill(s)
    \/ \E s, t \in Slots : DoCopy(s, t)
    \/ \E s, a, b \in Slots : DoUnionOf(s, a, b)
    \/ \E s \in Slots : LoopStart(s)
    \/ LoopNext
    \/ LoopExit

Spec == Init /\ [][Next_]_vars

----------------------------------------------------------------------------
\* Properties

RECURSIVE Ascending(_)
\* The elements of a set of integers in ascending order.
Ascending(S) ==
    IF S = {} THEN <<>>
    ELSE LET m == CHOOSE x \in S : \A y \in S : x <= y
         IN  <<m>> \o Ascending(S \ {m})

\* The positions below sourceLen whose bit is set in the array of q.
Marked(q, h) ==
    {p \in 0..(q.sourceLen - 1) :
        Bit(h[q.bits][(p \div UintSize) + 1], p % UintSize) = 1}

\* What can be observed of a filter: its fields, its words, its iteration.
View(q, h) ==
    [len |-> LenOf(q), sourceLen |-> q.sourceLen, words |-> h[q.bits],
     yields |-> IterateAll(q, h)]

Mutators == {"Add", "Clear", "Fill", "UnionOf"}

\* ceil(n / UintSize)
CeilWords(n) == (n + UintSize - 1) \div UintSize

\* C1: a filter made by New and then only Adds of distinct positions within
\* [0, sourceLen) has Len() equal to the number of added positions and
\* iterates exactly the added positions in ascending order.
AddRoundTrip ==
    \A s \in Slots :
        hist[s].addOnly =>
            /\ LenOf(qf[s]) = Cardinality(hist[s].added)
            /\ IterateAll(qf[s], heap) = Ascending(hist[s].added)

\* C1 witness: two distinct positions were added, the last step an Add.
AddRoundTripWitness ==
    /\ last.op = "Add"
    /\ hist[last.s].addOnly
    /\ Cardinality(hist[last.s].added) >= 2
    /\ 0 \notin hist[last.s].added

\* C2: after Fill() and after NewFilled(C), Len() = C, and iteration yields
\* exactly 0, 1, ..., C-1, so Len() does not exceed C and no position >= C
\* is yielded, also when C is not a multiple of the word width.
FillIsAll ==
    last.op \in {"Fill", "NewFilled"} =>
        LET q == qf[last.s]
        IN  /\ LenOf(q) = q.sourceLen
            /\ IterateAll(q, heap) = [i \in 1..q.sourceLen |-> i - 1]
            /\ LenOf(q) <= q.sourceLen
            /\ \A i \in 1..Len(IterateAll(q, heap)) :
                   IterateAll(q, heap)[i] < q.sourceLen

\* C2 witness: Fill on a filter of several words whose capacity is not a
\* multiple of the word width.
FillIsAllWitness ==
    /\ last.op = "Fill"
    /\ qf[last.s].sourceLen % UintSize # 0
    /\ qf[last.s].sourceLen > UintSize

\* C3: after Clear(), Len() = 0, every word is zero, and Iterate() returns
\* an Iterator that is Done, so that iteration yields nothing.
ClearEmpties ==
    last.op = "Clear" =>
        LET q == qf[last.s]
        IN  /\ LenOf(q) = 0
            /\ \A i \in 1..Len(heap[q.bits]) : heap[q.bits][i] = 0
            /\ Done(Iterate(q, heap))
            /\ IterateAll(q, heap) = <<>>

\* C3 witness: Clear on a filter with room for positions, which had been
\* obtained by Copy.
ClearEmptiesWitness ==
    /\ last.op = "Clear"
    /\ qf[last.s].sourceLen = MaxSourceLen
    /\ hist[last.s].copyOf # "none"

\* The receiver and the operands of the UnionOf step just taken have the
\* same sourceLen (read before the step).
SameCapacity ==
    /\ qf[last'.s].sourceLen = qf[last'.a].sourceLen
    /\ qf[last'.s].sourceLen = qf[last'.b].sourceLen

\* The positions marked in either operand of the UnionOf step just taken
\* (read before the step).
MarkedInEither ==
    Marked(qf[last'.a], heap) \cup Marked(qf[last'.b], heap)

\* C4: for operands and receiver of the same capacity C, the Len() of
\* UnionOf(A, B) is the number of positions in [0, C) marked in A or in B.
UnionLenCountsMarked ==
    [][(last'.op = "UnionOf" /\ ~last'.panic /\ SameCapacity) =>
          LenOf(qf'[last'.s]) = Cardinality(MarkedInEither)]_vars

\* C5: for operands and receiver of the same capacity C, iterating the
\* result of UnionOf(A, B) yields exactly the positions in [0, C) marked in
\* A or in B, in ascending order, whatever the receiver held before.
UnionIterates ==
    [][(last'.op = "UnionOf" /\ ~last'.panic /\ SameCapacity) =>
          IterateAll(qf'[last'.s], heap') = Ascending(MarkedInEither)]_vars

\* C5 witness: UnionOf has returned to a receiver that is neither operand,
\* with a result of at least two positions that skips position 0.
UnionIteratesWitness ==
    /\ last.op = "UnionOf"
    /\ ~last.panic
    /\ last.s # last.a
    /\ last.s # last.b
    /\ qf[last.s].sourceLen = qf[last.a].sourceLen
    /\ Len(IterateAll(qf[last.s], heap)) >= 2
    /\ IterateAll(qf[last.s], heap)[1] # 0

\* C6: UnionOf panics whenever the receiver and the two operands do not all
\* have the same capacity.
UnionPanicsOnMismatch ==
    (/\ last.op = "UnionOf"
     /\ \/ qf[last.s].sourceLen # qf[last.a].sourceLen
        \/ qf[last.s].sourceLen # qf[last.b].sourceLen)
    => last.panic

\* C7: Copy() returns a filter with the capacity, the words and the Len()
\* of its source in a backing array of its own, and a later Add, Clear, Fill
\* or UnionOf on one filter changes nothing that can be observed of another.
CopyIndependent ==
    [][/\ last'.op = "Copy" =>
            /\ View(qf'[last'.s], heap') = View(qf[last'.a], heap)
            /\ View(qf'[last'.a], heap') = View(qf[last'.a], heap)
            /\ qf'[last'.s].bits # qf'[last'.a].bits
       /\ last'.op \in Mutators =>
            \A t \in Slots \ {last'.s} :
                View(qf'[t], heap') = View(qf[t], heap)]_vars

\* C7 witness: a copy, or the source of a copy, was mutated after the Copy
\* and the two now differ in their words.
CopyIndependentWitness ==
    \E s \in Slots :
        /\ hist[s].copyOf # "none"
        /\ last.op \in Mutators
        /\ ~last.panic
        /\ last.s = s
        /\ qf[s].sourceLen = qf[hist[s].copyOf].sourceLen
        /\ heap[qf[s].bits] # heap[qf[hist[s].copyOf].bits]

\* C8: the loop over an Iterator calls Next at most sourceLen times, and
\* every Value() seen while Done() is false is a marked position of
\* [0, sourceLen) greater than the value seen before it.
LoopBounded ==
    pc = "loop" =>
        /\ calls <= it.sourceLen
        /\ ~Done(it) =>
              /\ Value(it) \in 0..(it.sourceLen - 1)
              /\ Bit(heap[it.bits][(Value(it) \div UintSize) + 1],
                     Value(it) % UintSize) = 1
              /\ Value(it) > prev

\* C8 witness: a loop has ended after sourceLen calls of Next.
LoopBoundedWitness ==
    /\ pc = "loop"
    /\ Done(it)
    /\ it.sourceLen >= 2
    /\ calls = it.sourceLen

\* C9: every bit of the last word at a position >= sourceLen is zero.
PaddingZero ==
    \A s \in Slots :
        LET words == heap[qf[s].bits]
        IN  \A p \in qf[s].sourceLen..(Len(words) * UintSize - 1) :
                Bit(words[(p \div UintSize) + 1], p % UintSize) = 0

\* C10: New(C) returns a filter with Len() = 0 and ceil(C / UintSize)
\* words, all zero; New(0) has no words.
NewAllocatesCeil ==
    last.op = "New" =>
        LET q == qf[last.s]
        IN  /\ LenOf(q) = 0
            /\ Len(heap[q.bits]) = CeilWords(q.sourceLen)
            /\ \A i \in 1..Len(heap[q.bits]) : heap[q.bits][i] = 0

\* The positions tested by the call of Next that produced the Iterator of
\* the running loop: the call started one past the value seen before it
\* (at 0 for the call made by Iterate).
LastTested == Tested(prev + 1, it.sourceLen, heap[it.bits])

\* C11: while Next looks for the next set bit, it never tests two different
\* positions of a word that is all zero: from a position in such a word the
\* cursor goes to the first position of the next word.
NextSkipsZeroWords ==
    pc = "loop" =>
        \A i, j \in 1..Len(LastTested) :
            (/\ LastTested[i] # LastTested[j]
             /\ offsets(LastTested[i]).index = offsets(LastTested[j]).index)
            => heap[it.bits][offsets(LastTested[i]).index + 1] # 0

====
